---- MODULE Spec2Model ----
(***************************************************************************)
(* Model of code/abstraction/fold-concat.c: the folds over int arrays,     *)
(* string lists, void* arrays, void* lists and counted arrays, and the     *)
(* three concatenations built on them (concat_list, concat_string_list,    *)
(* concat).                                                                *)
(*                                                                         *)
(* Values:                                                                 *)
(*  - a C string is a sequence of bytes whose last byte is the terminator  *)
(*    0 and whose other bytes are non-zero;                                *)
(*  - an int is an integer;                                                *)
(*  - a void* or char* is a 64-bit word [hi, lo]: hi its upper 32 bits, lo *)
(*    its lower 32 bits read as a signed int.  Converting it to int keeps  *)
(*    lo; converting an int to a pointer sign-extends it.  A pointer that  *)
(*    carries a length has hi = 0;                                         *)
(*  - malloc places its block at an address that fits an int (hi = 0) or  *)
(*    at one that does not (hi = HighSeg);                                 *)
(*  - a list node pointer is the address of the node in `nodes`, NULL = 0; *)
(*  - a byte of the block that was never written is Indet: reading it      *)
(*    gives any byte.                                                      *)
(***************************************************************************)
EXTENDS Integers, Sequences, FiniteSets, TLC

\* ------------------------------------------------------------------ bounds
MaxElems == 2
MaxStrLen == 1
IntAbs == 1
MaxInit == 1
HeapBase == 100
HighSeg == 21845
Indet == 256

NULL == 0

Alphabet == {97, 98}
Byte == {0} \cup Alphabet

\* "foo", "bar", "hello", "world" of main, and the ints of the array example
Foo == <<102, 111, 111, 0>>
Bar == <<98, 97, 114, 0>>
Hello == <<104, 101, 108, 108, 111, 0>>
World == <<119, 111, 114, 108, 100, 0>>
MainList == <<Foo, Bar>>
MainArray == <<Hello, World>>
ExampleInts == <<1, 2, 3, 4>>

SeqsUpTo(S, n) == UNION {[1..k -> S] : k \in 0..n}
CStrings == {s \o <<0>> : s \in SeqsUpTo(Alphabet, MaxStrLen)}
StrInputs == SeqsUpTo(CStrings, MaxElems) \cup {MainList, MainArray}
IntInputs == SeqsUpTo((0 - IntAbs)..IntAbs, MaxElems) \cup {ExampleInts}
Inits == 0..MaxInit

\* --------------------------------------------------------- pure functions
RECURSIVE sum_array_direct_loop(_, _, _, _)
sum_array_direct_loop(xs_, length_, i_, sum_) ==
    IF i_ < length_
    THEN sum_array_direct_loop(xs_, length_, i_ + 1, sum_ + xs_[i_ + 1])
    ELSE sum_

sum_array_direct(xs_, length_) == sum_array_direct_loop(xs_, length_, 0, 0)

\* sum with the operands subtracted
sum_minus(x, y) == x - y

sum(x, y) == x + y

\* number of bytes before the first terminator
strlen(s) == CHOOSE k \in 0..(Len(s) - 1) :
                 /\ s[k + 1] = 0
                 /\ \A j \in 1..k : s[j] # 0

accumulate_length(sum_, string) == sum_ + strlen(string)

\* ---------------------------------------------------------------- words
Ptr(h, l) == [hi |-> h, lo |-> l]

\* (int) p: the lower 32 bits
PtrToInt(p) == p.lo

\* (char*) n, (void*) n for an int n: sign extension
IntToPtr(n) == Ptr(IF n < 0 THEN 0 - 1 ELSE 0, n)

\* p + k, for offsets that do not carry out of the lower 32 bits
PtrAdd(p, k) == Ptr(p.hi, p.lo + k)

NullPtr == IntToPtr(NULL)

\* stpcpy(dst, src): the bytes it stores, terminator included, in order ...
stpcpy_writes(dst, src) ==
    [k \in 1..(strlen(src) + 1) |->
        [addr |-> PtrAdd(dst, k - 1), byte |-> src[k]]]

\* ... and the pointer it returns: the address of the terminator it stored
stpcpy(dst, src) == PtrAdd(dst, strlen(src))

\* What op(acc, elem) leaves in the return register when op is called with
\* two pointer arguments: accumulate_length takes the int in the lower half
\* of its first argument and returns an int (never negative here, so the
\* upper half of the register is 0), stpcpy returns a pointer.
CallBinop(o, acc, elem) ==
    CASE o = "accumulate_length" ->
             IntToPtr(accumulate_length(PtrToInt(acc), elem))
      [] o = "stpcpy" -> stpcpy(acc, elem)

BinopWrites(o, acc, elem) ==
    IF o = "stpcpy" THEN stpcpy_writes(acc, elem) ELSE <<>>

\* --------------------------------------------------------- data layout
\* A list built as in main: the tail node is laid out first, so the node of the
\* k-th element lives at address n - k + 1 and the head is node n.
BuildNodes(content) ==
    [p \in 1..Len(content) |->
        [value |-> content[Len(content) - p + 1],
         next |-> IF p > 1 THEN p - 1 ELSE NULL]]

BuildHead(content) == IF Len(content) = 0 THEN NULL ELSE Len(content)

BuildCountedArray(content) == [value |-> content, length |-> Len(content)]
\* the strings of a list in traversal order, following `next` from node p
RECURSIVE ListContent(_, _)
ListContent(ns, p) ==
    IF p = NULL THEN <<>> ELSE <<ns[p].value>> \o ListContent(ns, ns[p].next)

RECURSIVE TotalLength(_)
TotalLength(content) ==
    IF content = <<>> THEN 0
    ELSE strlen(Head(content)) + TotalLength(Tail(content))

\* ------------------------------------------------------------------ state
VARIABLES
    xs,        \* the int array handed to the int folds
    nodes,     \* the list nodes: address -> [value, next]
    head,      \* pointer to the first node, NULL for the empty list
    carray,    \* the counted_array: [value, length]
    fn,        \* the function the caller entered
    foldarg,   \* concat's `fold` argument
    pc,        \* "idle", "fold", "len", "copy", "done", "crashed"
    fold,      \* the loop that is running
    op,        \* the reducer of the running fold
    init,      \* the running fold's `init`
    value,     \* the running loop's accumulator (value / size / outp)
    array,     \* the running array fold's `array`
    length,    \* the running array fold's `length`
    i,         \* the running array fold's index
    list,      \* the running list loop's `list`
    calls,     \* the reducer invocations of the running loop, in order
    outbuf,    \* the block's address, NullPtr when malloc failed
    size,      \* the number of bytes of the block
    mem,       \* the block's bytes: mem[k + 1] is the byte at outbuf + k, or Indet
    writes,    \* every byte stored since the call began: [addr, byte]
    ret,       \* the value returned to the caller
    text,      \* the bytes the caller reads at the returned char*, <<>> if none
    prev       \* <<outcome>> of the previous concatenation on the same data, or <<>>

data == <<xs, nodes, head, carray>>
frame == <<fold, op, init, value, array, length, i, list, calls>>
heap == <<outbuf, size, mem, writes>>
vars == <<xs, nodes, head, carray, fn, foldarg, pc, fold, op, init, value,
          array, length, i, list, calls, outbuf, size, mem, writes, ret, text,
          prev>>

ConcatFns == {"concat_list", "concat_string_list", "concat"}
ArrayFolds == {"fold_int_array", "fold_array"}

Init ==
    /\ \E content \in StrInputs, ints \in IntInputs :
          /\ content = <<>> \/ ints = <<>>
          /\ xs = ints
          /\ nodes = BuildNodes(content)
          /\ head = BuildHead(content)
          /\ carray = BuildCountedArray(content)
    /\ fn = "none" /\ foldarg = "none" /\ pc = "idle"
    /\ fold = "none" /\ op = "none" /\ init = NullPtr /\ value = NullPtr
    /\ array = <<>> /\ length = 0 /\ i = 0 /\ list = NULL /\ calls = <<>>
    /\ outbuf = NullPtr /\ size = 0 /\ mem = <<>> /\ writes = <<>>
    /\ ret = NullPtr /\ text = <<>>
    /\ prev = <<>>

\* ------------------------------------------------------------ the heap
\* what malloc(n) can return: NULL, or the address of a fresh block of n
\* bytes, below 2^31 or above 2^32
malloc(n) == {NullPtr, Ptr(0, HeapBase), Ptr(HighSeg, HeapBase)}

\* the contents of a fresh block are indeterminate
FreshBlock(n) == [k \in 1..n |-> Indet]

InBuffer(addr) ==
    /\ outbuf # NullPtr
    /\ addr.hi = outbuf.hi
    /\ addr.lo >= outbuf.lo /\ addr.lo < outbuf.lo + size

\* the block after the stores ws, in order; a store outside the block does
\* not land in it
RECURSIVE Store(_, _)
Store(m, ws) ==
    IF ws = <<>> THEN m
    ELSE LET w == Head(ws)
             m1 == IF InBuffer(w.addr)
                   THEN [m EXCEPT ![w.addr.lo - outbuf.lo + 1] = w.byte]
                   ELSE m
         IN Store(m1, Tail(ws))

\* the bytes a reader of the C string at the start of block m sees: up to and
\* including the first terminator, or the whole block when it holds none (the
\* reader then runs off the end of the block)
ReadString(m) ==
    IF \E k \in 1..Len(m) : m[k] = 0
    THEN SubSeq(m, 1, CHOOSE k \in 1..Len(m) :
                          m[k] = 0 /\ \A j \in 1..(k - 1) : m[j] # 0)
    ELSE m

\* block m with its indeterminate bytes read as g says
Resolve(m, g) == [k \in 1..Len(m) |-> IF m[k] = Indet THEN g[k] ELSE m[k]]

IndetAt(m) == {k \in 1..Len(m) : m[k] = Indet}

\* ------------------------------------------------------- loop machinery
EnterLoop(f, o, in, arr, len, lst) ==
    /\ fold' = f /\ op' = o /\ init' = in /\ value' = in
    /\ array' = arr /\ length' = len /\ i' = 0 /\ list' = lst
    /\ calls' = <<>>

\* One invocation op(value, elem) that left r in the return register and
\* stored ws: the call is recorded and the stores reach the heap.  A store
\* outside the block is undefined behaviour: the process dies there or runs on.
Invoked(elem, r, ws) ==
    /\ calls' = Append(calls, [acc |-> value, elem |-> elem, ret |-> r])
    /\ writes' = writes \o ws
    /\ mem' = Store(mem, ws)
    /\ IF \A k \in 1..Len(ws) : InBuffer(ws[k].addr)
       THEN pc' = pc
       ELSE pc' \in {pc, "crashed"}
    /\ UNCHANGED <<outbuf, size>>

Running == pc \in {"fold", "len", "copy"}

\* the running loop's condition is false
LoopExit ==
    IF fold \in ArrayFolds THEN ~(i < length) ELSE list = NULL

\* ------------------------------------------------------------ the folds
\* int value; for (i = 0; i < length; i++) value = op(value, array[i]);
\* op is an int_binop
fold_int_array ==
    /\ Running /\ fold = "fold_int_array"
    /\ i < length
    /\ LET r == sum(value, array[i + 1])
       IN /\ value' = r
          /\ Invoked(array[i + 1], r, <<>>)
    /\ i' = i + 1
    /\ UNCHANGED <<data, fn, foldarg, fold, op, init, array, length, list,
                   ret, text, prev>>

\* void* value; for (i = 0; i < length; i++) value = op(value, array[i]);
\* op is a binop: it returns void*
fold_array ==
    /\ Running /\ fold = "fold_array"
    /\ i < length
    /\ LET r == CallBinop(op, value, array[i + 1])
       IN /\ value' = r
          /\ Invoked(array[i + 1], r, BinopWrites(op, value, array[i + 1]))
    /\ i' = i + 1
    /\ UNCHANGED <<data, fn, foldarg, fold, op, init, array, length, list,
                   ret, text, prev>>

\* char* value; while (list) { value = op(value, list->value); list = list->next; }
\* op is a string_binop: it returns int, which is converted to char*
fold_string_list ==
    /\ Running /\ fold = "fold_string_list"
    /\ list # NULL
    /\ LET r == CallBinop(op, value, nodes[list].value)
       IN /\ value' = IntToPtr(PtrToInt(r))
          /\ Invoked(nodes[list].value, r,
                     BinopWrites(op, value, nodes[list].value))
    /\ list' = nodes[list].next
    /\ UNCHANGED <<data, fn, foldarg, fold, op, init, array, length, i,
                   ret, text, prev>>

\* void* value; while (list) { value = op(value, list->value); list = list->next; }
\* op is a binop: it returns void*
fold_list ==
    /\ Running /\ fold = "fold_list"
    /\ list # NULL
    /\ LET r == CallBinop(op, value, nodes[list].value)
       IN /\ value' = r
          /\ Invoked(nodes[list].value, r,
                     BinopWrites(op, value, nodes[list].value))
    /\ list' = nodes[list].next
    /\ UNCHANGED <<data, fn, foldarg, fold, op, init, array, length, i,
                   ret, text, prev>>

\* int size; while (list) { size += strlen(list->value); list = list->next; }
size_list ==
    /\ pc = "len" /\ fold = "size_list"
    /\ list # NULL
    /\ value' = value + strlen(nodes[list].value)
    /\ list' = nodes[list].next
    /\ UNCHANGED <<data, fn, foldarg, pc, fold, op, init, array, length, i,
                   calls, heap, ret, text, prev>>

\* while (list) { outp = stpcpy(outp, list->value); list = list->next; }
concat_list_copy ==
    /\ pc = "copy" /\ fold = "concat_list"
    /\ list # NULL
    /\ LET r == stpcpy(value, nodes[list].value)
       IN /\ value' = r
          /\ Invoked(nodes[list].value, r,
                     stpcpy_writes(value, nodes[list].value))
    /\ list' = nodes[list].next
    /\ UNCHANGED <<data, fn, foldarg, fold, op, init, array, length, i,
                   ret, text, prev>>

\* return value;  fold_array is declared to return int, so what its caller
\* gets is the lower half of value; the other folds return value as it is
ReturnValue ==
    IF fold = "fold_array" THEN IntToPtr(PtrToInt(value)) ELSE value

\* the return of a fold the caller entered directly
fold_return ==
    /\ pc = "fold" /\ LoopExit
    /\ ret' = ReturnValue
    /\ pc' = "done"
    /\ UNCHANGED <<data, fn, foldarg, frame, heap, text, prev>>

\* fold_counted_array(array, init, op): fold_array over array->value, array->length
fold_counted_array(in, o) ==
    EnterLoop("fold_array", o, in, carray.value, carray.length, NULL)

\* fold(collection, init, op) through concat's function pointer
CallFoldArg(f, in, o) ==
    IF f = "fold_list"
    THEN EnterLoop("fold_list", o, in, <<>>, 0, head)
    ELSE fold_counted_array(in, o)
\* ------------------------------------------------------------- callers
Idle == pc = "idle"

\* the block a caller hands to a fold that copies: large enough for the
\* whole output
CallerBlocks == malloc(0) \ {NullPtr}

\* the accumulators a caller starts a fold with: a running total, or a cursor
\* at the start of its block
StartAccs(o) ==
    IF o = "stpcpy" THEN CallerBlocks ELSE {IntToPtr(n) : n \in Inits}

CallerBuffer(o, in, content) ==
    IF o = "stpcpy"
    THEN /\ outbuf' = in
         /\ size' = TotalLength(content) + 1
         /\ mem' = FreshBlock(TotalLength(content) + 1)
         /\ UNCHANGED writes
    ELSE UNCHANGED heap

sum_array_direct_call ==
    /\ Idle /\ prev = <<>>
    /\ \E n \in 0..Len(xs) :
          /\ fn' = "sum_array_direct"
          /\ array' = xs /\ length' = n
          /\ ret' = sum_array_direct(xs, n)
    /\ pc' = "done"
    /\ UNCHANGED <<data, foldarg, fold, op, init, value, i, list, calls, heap,
                   text, prev>>

\* sum_array(array, length): fold_int_array(array, length, 0, sum)
sum_array ==
    /\ Idle /\ prev = <<>>
    /\ \E n \in 0..Len(xs) :
          EnterLoop("fold_int_array", "sum", 0, xs, n, NULL)
    /\ fn' = "sum_array" /\ pc' = "fold"
    /\ UNCHANGED <<data, foldarg, heap, ret, text, prev>>

fold_int_array_call ==
    /\ Idle /\ prev = <<>>
    /\ \E n \in 0..Len(xs), in \in Inits :
          EnterLoop("fold_int_array", "sum", in, xs, n, NULL)
    /\ fn' = "fold_int_array" /\ pc' = "fold"
    /\ UNCHANGED <<data, foldarg, heap, ret, text, prev>>

fold_string_list_call ==
    /\ Idle /\ prev = <<>>
    /\ \E o \in {"accumulate_length", "stpcpy"} :
          \E in \in StartAccs(o) :
             /\ EnterLoop("fold_string_list", o, in, <<>>, 0, head)
             /\ CallerBuffer(o, in, ListContent(nodes, head))
    /\ fn' = "fold_string_list" /\ pc' = "fold"
    /\ UNCHANGED <<data, foldarg, ret, text, prev>>

fold_list_call ==
    /\ Idle /\ prev = <<>>
    /\ \E o \in {"accumulate_length", "stpcpy"} :
          \E in \in StartAccs(o) :
             /\ EnterLoop("fold_list", o, in, <<>>, 0, head)
             /\ CallerBuffer(o, in, ListContent(nodes, head))
    /\ fn' = "fold_list" /\ pc' = "fold"
    /\ UNCHANGED <<data, foldarg, ret, text, prev>>

fold_array_call ==
    /\ Idle /\ prev = <<>>
    /\ \E o \in {"accumulate_length", "stpcpy"} :
          \E in \in StartAccs(o), n \in 0..Len(carray.value) :
             /\ EnterLoop("fold_array", o, in, carray.value, n, NULL)
             /\ CallerBuffer(o, in, carray.value)
    /\ fn' = "fold_array" /\ pc' = "fold"
    /\ UNCHANGED <<data, foldarg, ret, text, prev>>

fold_counted_array_call ==
    /\ Idle /\ prev = <<>>
    /\ \E o \in {"accumulate_length", "stpcpy"} :
          \E in \in StartAccs(o) :
             /\ fold_counted_array(in, o)
             /\ CallerBuffer(o, in, carray.value)
    /\ fn' = "fold_counted_array" /\ pc' = "fold"
    /\ UNCHANGED <<data, foldarg, ret, text, prev>>

\* ------------------------------------------------------ concatenations
\* return outbuf;  the caller then reads the string there
ReturnBuffer ==
    /\ ret' = outbuf
    /\ IF outbuf = NullPtr
       THEN text' = <<>>
       ELSE \E g \in [IndetAt(mem) -> Byte] :
               text' = ReadString(Resolve(mem, g))
    /\ pc' = "done"

\* outbuf = malloc(n)
Allocate(n) ==
    \E p \in malloc(n) :
       /\ outbuf' = p
       /\ size' = IF p = NullPtr THEN 0 ELSE n
       /\ mem' = FreshBlock(IF p = NullPtr THEN 0 ELSE n)
\* char *outbuf = malloc(size_list(list) + 1);
concat_list_size ==
    /\ Idle
    /\ fn' = "concat_list" /\ pc' = "len"
    /\ EnterLoop("size_list", "none", 0, <<>>, 0, head)
    /\ UNCHANGED <<data, foldarg, heap, ret, text, prev>>

\* if (outbuf) { char *outp = outbuf; while (list) ... } return outbuf;
concat_list_alloc ==
    /\ fn = "concat_list" /\ pc = "len" /\ LoopExit
    /\ Allocate(value + 1)
    /\ IF outbuf' # NullPtr
       THEN /\ EnterLoop("concat_list", "stpcpy", outbuf', <<>>, 0, head)
            /\ pc' = "copy"
            /\ UNCHANGED <<ret, text>>
       ELSE /\ ret' = outbuf' /\ text' = <<>> /\ pc' = "done"
            /\ UNCHANGED frame
    /\ UNCHANGED <<data, fn, foldarg, writes, prev>>

concat_list_return ==
    /\ fn = "concat_list" /\ pc = "copy" /\ LoopExit
    /\ ReturnBuffer
    /\ UNCHANGED <<data, fn, foldarg, frame, heap, prev>>

concat_list == concat_list_size \/ concat_list_alloc \/ concat_list_return

\* malloc(fold_string_list(list, 0, accumulate_length) + 1)
concat_string_list_length ==
    /\ Idle
    /\ fn' = "concat_string_list" /\ pc' = "len"
    /\ EnterLoop("fold_string_list", "accumulate_length", IntToPtr(0), <<>>,
                 0, head)
    /\ UNCHANGED <<data, foldarg, heap, ret, text, prev>>

\* if (outbuf) fold_string_list(list, outbuf, stpcpy); return outbuf;
concat_string_list_alloc ==
    /\ fn = "concat_string_list" /\ pc = "len" /\ LoopExit
    /\ Allocate(PtrToInt(ReturnValue) + 1)
    /\ IF outbuf' # NullPtr
       THEN /\ EnterLoop("fold_string_list", "stpcpy", outbuf', <<>>, 0, head)
            /\ pc' = "copy"
            /\ UNCHANGED <<ret, text>>
       ELSE /\ ret' = outbuf' /\ text' = <<>> /\ pc' = "done"
            /\ UNCHANGED frame
    /\ UNCHANGED <<data, fn, foldarg, writes, prev>>

concat_string_list_return ==
    /\ fn = "concat_string_list" /\ pc = "copy" /\ LoopExit
    /\ ReturnBuffer
    /\ UNCHANGED <<data, fn, foldarg, frame, heap, prev>>

concat_string_list ==
    \/ concat_string_list_length
    \/ concat_string_list_alloc
    \/ concat_string_list_return

\* char *outbuf = malloc(fold(collection, 0, accumulate_length) + 1);
concat_length ==
    /\ Idle
    /\ \E f \in {"fold_list", "fold_counted_array"} :
          /\ foldarg' = f
          /\ CallFoldArg(f, IntToPtr(0), "accumulate_length")
    /\ fn' = "concat" /\ pc' = "len"
    /\ UNCHANGED <<data, heap, ret, text, prev>>

\* concat_alloc asking malloc for the length alone, with no room for the
\* terminator
concat_alloc_no_room ==
    /\ fn = "concat" /\ pc = "len" /\ LoopExit
    /\ Allocate(PtrToInt(ReturnValue))
    /\ CallFoldArg(foldarg, outbuf', "stpcpy")
    /\ pc' = "copy"
    /\ UNCHANGED <<data, fn, foldarg, writes, ret, text, prev>>

\* fold(collection, outbuf, stpcpy);  whatever malloc returned
concat_alloc ==
    /\ fn = "concat" /\ pc = "len" /\ LoopExit
    /\ Allocate(PtrToInt(ReturnValue) + 1)
    /\ CallFoldArg(foldarg, outbuf', "stpcpy")
    /\ pc' = "copy"
    /\ UNCHANGED <<data, fn, foldarg, writes, ret, text, prev>>

\* return outbuf;
concat_return ==
    /\ fn = "concat" /\ pc = "copy" /\ LoopExit
    /\ ReturnBuffer
    /\ UNCHANGED <<data, fn, foldarg, frame, heap, prev>>

concat == concat_length \/ concat_alloc \/ concat_return

\* ---------------------------------------------------------------- main
\* the stores of the finished call, as offsets from the pointer malloc gave
RelativeWrites ==
    [k \in 1..Len(writes) |->
        [seg |-> writes[k].addr.hi - outbuf.hi,
         off |-> writes[k].addr.lo - outbuf.lo,
         byte |-> writes[k].byte]]

\* main goes on from one concatenation to the next
NextStatement ==
    /\ pc \in {"done", "crashed"} /\ fn \in ConcatFns /\ prev = <<>>
    /\ prev' = << [fn |-> fn, foldarg |-> foldarg, crashed |-> pc = "crashed",
                   allocated |-> outbuf # NullPtr, ret |-> ret, text |-> text,
                   writes |-> RelativeWrites] >>
    /\ fn' = "none" /\ foldarg' = "none" /\ pc' = "idle"
    /\ EnterLoop("none", "none", NullPtr, <<>>, 0, NULL)
    /\ outbuf' = NullPtr /\ size' = 0 /\ mem' = <<>> /\ writes' = <<>>
    /\ ret' = NullPtr /\ text' = <<>>
    /\ UNCHANGED data

Next ==
    \/ fold_int_array \/ fold_array \/ fold_string_list \/ fold_list
    \/ size_list \/ concat_list_copy \/ fold_return
    \/ sum_array_direct_call \/ sum_array \/ fold_int_array_call
    \/ fold_string_list_call \/ fold_list_call \/ fold_array_call
    \/ fold_counted_array_call
    \/ concat_list \/ concat_string_list \/ concat
    \/ NextStatement

Spec == Init /\ [][Next]_vars
\* ================================================================ claims
\* the sequence a concat call was given
Collection ==
    IF foldarg = "fold_counted_array" THEN carray.value
    ELSE ListContent(nodes, head)

\* the sequence a fold the caller entered directly was given
FoldInput ==
    IF fold \in ArrayFolds THEN SubSeq(array, 1, length)
    ELSE ListContent(nodes, head)

\* the characters of the strings of content, joined, without terminators
RECURSIVE Join(_)
Join(content) ==
    IF content = <<>> THEN <<>>
    ELSE SubSeq(Head(content), 1, strlen(Head(content))) \o Join(Tail(content))

FoldFns == {"sum_array", "fold_int_array", "fold_string_list", "fold_list",
            "fold_array", "fold_counted_array"}

ConcatReturned == pc = "done" /\ fn = "concat" /\ ret # NullPtr

\* C1: when allocation succeeds, concat(fold, S) returns the string made of
\* the elements' characters joined in traversal order with no separator.
C1_ConcatIsJoin ==
    ConcatReturned => text = Join(Collection) \o <<0>>

\* C2: concat of an empty sequence returns a buffer whose byte at index 0 is
\* the string terminator: the empty string.
C2_EmptyConcatIsEmptyString ==
    (ConcatReturned /\ Collection = <<>>) => (text # <<>> /\ text[1] = 0)

\* C3: when the allocation fails, a concatenation never writes through the
\* null buffer and returns the null result.
C3_NoWriteAfterFailedAlloc ==
    (fn \in ConcatFns /\ pc \in {"copy", "done", "crashed"} /\ outbuf = NullPtr)
        => (writes = <<>> /\ pc # "crashed" /\ (pc = "done" => ret = NullPtr))

\* C4: when allocation succeeds, the length of concat(S), the index of its
\* first terminator, is the sum of the lengths of the elements of S.
C4_ConcatLength ==
    ConcatReturned =>
        /\ text[Len(text)] = 0
        /\ Len(text) - 1 = TotalLength(Collection)

\* C5: a fold over a sequence of length n invokes the reducer exactly n times,
\* the k-th time with the k-th element and the accumulator the (k-1)-th
\* invocation returned (init for k = 1), and returns what the last returned.
C5_FoldThreadsAccumulator ==
    (pc = "done" /\ fn \in FoldFns) =>
        /\ Len(calls) = Len(FoldInput)
        /\ \A k \in 1..Len(calls) :
              /\ calls[k].elem = FoldInput[k]
              /\ calls[k].acc = IF k = 1 THEN init ELSE calls[k - 1].ret
        /\ calls # <<>> => ret = calls[Len(calls)].ret

\* C6: a fold over an empty sequence never invokes the reducer and returns
\* the initial accumulator unchanged.
C6_EmptyFoldReturnsInit ==
    (fn \in FoldFns /\ FoldInput = <<>>) =>
        /\ calls = <<>>
        /\ pc = "done" => ret = init

\* C7: concat returns equal strings for a list and a counted array that hold
\* equal strings in the same order.
C7_ShapeIndependent ==
    (/\ ConcatReturned /\ prev # <<>>
     /\ prev[1].fn = "concat" /\ prev[1].foldarg # foldarg
     /\ ~prev[1].crashed /\ prev[1].ret # NullPtr
     /\ ListContent(nodes, head) = carray.value)
        => text = prev[1].text

\* C8: concat(fold_list, l) and concat_string_list(l) have the same outcome
\* (the same text, or both the null result) and perform the same writes, for
\* either outcome of the allocation.
C8_ConcatIsConcatStringList ==
    (/\ pc \in {"done", "crashed"} /\ prev # <<>>
     /\ \/ fn = "concat_string_list" /\ prev[1].fn = "concat"
              /\ prev[1].foldarg = "fold_list"
        \/ fn = "concat" /\ foldarg = "fold_list"
              /\ prev[1].fn = "concat_string_list"
     /\ prev[1].allocated = (outbuf # NullPtr))
        => /\ prev[1].crashed = (pc = "crashed")
           /\ prev[1].ret = NullPtr <=> ret = NullPtr
           /\ prev[1].text = text
           /\ prev[1].writes = RelativeWrites

\* C9: sum_array(xs, n) is sum_array_direct(xs, n), and 10 for [1,2,3,4].
C9_SumArrayIsDirectSum ==
    (pc = "done" /\ fn = "sum_array") =>
        /\ ret = sum_array_direct(xs, length)
        /\ (xs = ExampleInts /\ length = 4) => ret = 10

C9_Witness ==
    /\ pc = "done" /\ fn = "sum_array"
    /\ xs = ExampleInts /\ length = 4 /\ ret = 10

\* C10: in concat's copy pass, when the allocation succeeded, the cursor is
\* the buffer start plus the lengths of the elements copied so far, every
\* byte stored lies at an index in 0..n of the n+1 bytes allocated, and the
\* cursor ends at index n.
C10_CopyPassInBounds ==
    (fn = "concat" /\ pc \in {"copy", "done", "crashed"} /\ outbuf # NullPtr) =>
        LET n == TotalLength(Collection)
        IN /\ size = n + 1
           /\ pc # "crashed"
           /\ Len(calls) <= Len(Collection)
           /\ value = PtrAdd(outbuf,
                             TotalLength(SubSeq(Collection, 1, Len(calls))))
           /\ \A k \in 1..Len(writes) :
                 /\ writes[k].addr.hi = outbuf.hi
                 /\ writes[k].addr.lo >= outbuf.lo
                 /\ writes[k].addr.lo <= outbuf.lo + n
           /\ pc = "done" => value = PtrAdd(outbuf, n)

C10_Witness ==
    /\ fn = "concat" /\ pc = "done" /\ outbuf.hi = HighSeg
    /\ foldarg = "fold_counted_array"
    /\ Len(calls) = 2 /\ size >= 3
    /\ writes[Len(writes)].addr = PtrAdd(outbuf, size - 1)
    /\ value = PtrAdd(outbuf, size - 1)
====
